---- MODULE Spec2Model ----
(***************************************************************************)
(* Model of the answer extractor (answer_extractor.py) and of the          *)
(* "Generate Questions" button handler (app.py).                           *)
(*                                                                         *)
(* Strings are sequences of one-character strings, so that lower-casing,   *)
(* prefix tests, substring tests, word tokenisation and sentence splitting *)
(* are computed character by character as the Python code computes them.  *)
(***************************************************************************)
EXTENDS Integers, Sequences, FiniteSets, TLC

VARIABLES
    pc,                      \* "call" before the operation runs, "done" after it returned
    context,                 \* simple_answer_extraction: argument context
    question,                \* simple_answer_extraction: argument question
    answer,                  \* simple_answer_extraction: returned string
    returned_at,             \* simple_answer_extraction: line of the return statement taken
    ea_context,              \* extract_answers: argument context (dict or str)
    questions_by_type,       \* extract_answers: argument questions_by_type
    questions_with_answers,  \* extract_answers: returned dict
    text_input,              \* app: content of the text area
    checkboxes,              \* app: the four question-type checkboxes
    classified_questions,    \* app: what classify_questions returns
    calls,                   \* app: the pipeline functions invoked by the handler, in order
    error_shown,             \* app: st.error was displayed
    all_questions,           \* app: rows collected for export
    download_offered         \* app: st.download_button was rendered

vars == <<pc, context, question, answer, returned_at,
          ea_context, questions_by_type, questions_with_answers,
          text_input, checkboxes, classified_questions, calls, error_shown,
          all_questions, download_offered>>

saeVars == <<context, question, answer, returned_at>>
eaVars == <<ea_context, questions_by_type, questions_with_answers>>
appVars == <<text_input, checkboxes, classified_questions, calls, error_shown,
             all_questions, download_offered>>

None == "none"

-----------------------------------------------------------------------------
(* Character classes and string primitives                                 *)

UpperCase == <<"A", "B", "C", "D", "E", "F", "G", "H", "I", "J", "K", "L", "M", "N", "O", "P", "Q", "R", "S", "T", "U", "V", "W", "X", "Y", "Z">>

LowerCase == <<"a", "b", "c", "d", "e", "f", "g", "h", "i", "j", "k", "l", "m", "n", "o", "p", "q", "r", "s", "t", "u", "v", "w", "x", "y", "z">>

Digits == <<"0", "1", "2", "3", "4", "5", "6", "7", "8", "9">>

Range(s) == {s[i] : i \in 1..Len(s)}

\* \w of the re module
WordChars == Range(UpperCase) \cup Range(LowerCase) \cup Range(Digits) \cup {"_"}

\* \s of the re module, and the characters str.strip() removes
Whitespace == {" ", "\t", "\n", "\r"}

\* [.!?] of the sentence splitting pattern
Terminators == {".", "!", "?"}

LowerChar(c) ==
    IF c \in Range(UpperCase)
    THEN LowerCase[CHOOSE i \in 1..Len(UpperCase) : UpperCase[i] = c]
    ELSE c

\* str.lower()
Lower(s) == [i \in 1..Len(s) |-> LowerChar(s[i])]

\* str.startswith(p)
StartsWith(s, p) == Len(s) >= Len(p) /\ SubSeq(s, 1, Len(p)) = p

\* sub in s, for strings
Contains(s, sub) ==
    \E i \in 1..(Len(s) - Len(sub) + 1) : SubSeq(s, i, i + Len(sub) - 1) = sub

\* set(re.findall(r'\b\w+\b', s)): the maximal runs of word characters
FindAllWords(s) ==
    { SubSeq(s, i, j) : <<i, j>> \in
        { p \in (1..Len(s)) \X (1..Len(s)) :
            /\ p[1] <= p[2]
            /\ \A k \in p[1]..p[2] : s[k] \in WordChars
            /\ (p[1] = 1 \/ s[p[1] - 1] \notin WordChars)
            /\ (p[2] = Len(s) \/ s[p[2] + 1] \notin WordChars) } }

\* first index >= i of s holding a non-whitespace character, Len(s)+1 if none
RECURSIVE SkipWhitespace(_, _)
SkipWhitespace(s, i) ==
    IF i > Len(s) \/ s[i] \notin Whitespace THEN i ELSE SkipWhitespace(s, i + 1)

\* re.split(r'(?<=[.!?])\s+', s) scanning from index i, the current piece
\* starting at index start
RECURSIVE SplitFrom(_, _, _)
SplitFrom(s, start, i) ==
    IF i > Len(s) THEN << SubSeq(s, start, Len(s)) >>
    ELSE IF i > 1 /\ s[i - 1] \in Terminators /\ s[i] \in Whitespace
         THEN LET j == SkipWhitespace(s, i)
              IN  << SubSeq(s, start, i - 1) >> \o SplitFrom(s, j, j)
         ELSE SplitFrom(s, start, i + 1)

SplitSentences(s) == SplitFrom(s, 1, 1)

-----------------------------------------------------------------------------
(* simple_answer_extraction                                                *)

BlankMarker == <<"_", "_", "_", "_", "_", "_", "_", "_">>

TrueFalsePrefixes == { <<"t", "r", "u", "e", " ", "o", "r", " ", "f", "a", "l", "s", "e">>,
                       <<"i", "s", " ", "t", "h", "e", " ", "f", "o", "l", "l", "o", "w", "i", "n", "g">>,
                       <<"i", "n", "d", "i", "c", "a", "t", "e", " ", "w", "h", "e", "t", "h", "e", "r">> }

CannotDetermine == <<"C", "a", "n", "n", "o", "t", " ", "d", "e", "t", "e", "r", "m", "i", "n", "e", " ", "f", "r", "o", "m", " ", "t", "h", "e", " ", "c", "o", "n", "t", "e", "x", "t", ".">>

NotStated == <<"B", "a", "s", "e", "d", " ", "o", "n", " ", "t", "h", "e", " ", "p", "a", "s", "s", "a", "g", "e", ",", " ", "t", "h", "i", "s", " ", "i", "n", "f", "o", "r", "m", "a", "t", "i", "o", "n", " ", "i", "s", " ", "n", "o", "t", " ", "e", "x", "p", "l", "i", "c", "i", "t", "l", "y", " ", "s", "t", "a", "t", "e", "d", ".">>

TrueLiteral == <<"T", "r", "u", "e">>

FalseLiteral == <<"F", "a", "l", "s", "e">>

stop_words == { <<"a">>,
      <<"a", "n">>,
      <<"t", "h", "e">>,
      <<"a", "n", "d">>,
      <<"o", "r">>,
      <<"b", "u", "t">>,
      <<"i", "s">>,
      <<"a", "r", "e">>,
      <<"w", "a", "s">>,
      <<"w", "e", "r", "e">>,
      <<"w", "h", "a", "t">>,
      <<"w", "h", "e", "r", "e">>,
      <<"w", "h", "e", "n">>,
      <<"w", "h", "y">>,
      <<"h", "o", "w">>,
      <<"w", "h", "o">>,
      <<"w", "h", "i", "c", "h">>,
      <<"i", "n">>,
      <<"o", "n">>,
      <<"a", "t">>,
      <<"t", "o">>,
      <<"f", "o", "r">>,
      <<"w", "i", "t", "h">>,
      <<"b", "y">>,
      <<"a", "b", "o", "u", "t">>,
      <<"t", "h", "i", "s">>,
      <<"t", "h", "a", "t">>,
      <<"t", "h", "e", "s", "e">>,
      <<"t", "h", "o", "s", "e">>,
      <<"f", "r", "o", "m">>,
      <<"a", "s">>,
      <<"o", "f">>,
      <<"d", "o", "e", "s">>,
      <<"d", "o">>,
      <<"d", "i", "d">>,
      <<"c", "a", "n">>,
      <<"c", "o", "u", "l", "d">>,
      <<"w", "i", "l", "l">>,
      <<"w", "o", "u", "l", "d">>,
      <<"s", "h", "o", "u", "l", "d">>,
      <<"s", "h", "a", "l", "l">>,
      <<"m", "a", "y">>,
      <<"m", "i", "g", "h", "t">>,
      <<"m", "u", "s", "t">> }

\* variant: the marker is looked for at the start of the question only
HasBlank_AtStart(q) == StartsWith(q, BlankMarker)

HasBlank(q) == Contains(q, BlankMarker)

\* variant: the prefix test without lower-casing the question
IsTrueFalsePrefixed_CaseSensitive(q) == \E p \in TrueFalsePrefixes : StartsWith(q, p)

IsTrueFalsePrefixed(q) == \E p \in TrueFalsePrefixes : StartsWith(Lower(q), p)

content_words(q) == FindAllWords(Lower(q)) \ stop_words

\* variant: the score without the boost of the first two sentences
Score_NoBoost(words, sentence, i) ==
    Cardinality({ w \in words : Contains(Lower(sentence), w) })

\* score of the sentence at 0-based index i
Score(words, sentence, i) ==
    Cardinality({ w \in words : Contains(Lower(sentence), w) })
        + (IF i < 2 THEN 1 ELSE 0)

\* the list of (score, i, sentence) tuples built by the loop
SentenceScores(words, sentences) ==
    [k \in 1..Len(sentences) |-> << Score(words, sentences[k], k - 1), k - 1, sentences[k] >>]

\* Python's tuple ordering on (score, i, sentence); the indices of a list are
\* pairwise distinct, so the sentence component never decides
TupleLess(a, b) == a[1] < b[1] \/ (a[1] = b[1] /\ a[2] < b[2])

\* list.sort(reverse=True)
SortReverse(seq) ==
    [r \in 1..Len(seq) |->
        CHOOSE e \in Range(seq) :
            Cardinality({ x \in Range(seq) : TupleLess(e, x) }) = r - 1]

\* the outcomes of simple_answer_extraction(context, question): the returned
\* string and the line of the return statement; random.choice makes it a set
simple_answer_extraction(ctx, q) ==
    IF HasBlank(q)
    THEN { [answer |-> CannotDetermine, line |-> 17] }
    ELSE IF IsTrueFalsePrefixed(q)
    THEN { [answer |-> a, line |-> 21] : a \in {TrueLiteral, FalseLiteral} }
    ELSE LET sentences == SplitSentences(ctx)
             sentence_scores == SortReverse(SentenceScores(content_words(q), sentences))
         IN  IF Len(sentences) = 0
             THEN { [answer |-> NotStated, line |-> 40] }
             ELSE IF Len(sentence_scores) > 0 /\ sentence_scores[1][1] > 0
             THEN { [answer |-> sentence_scores[1][3], line |-> 58] }
             ELSE { [answer |-> NotStated, line |-> 61] }

-----------------------------------------------------------------------------
(* Inputs of simple_answer_extraction                                      *)

MaxSentences == 3

Fragments == { <<"P", "a", "r", "i", "s", " ", "i", "s", " ", "t", "h", "e", " ", "c", "a", "p", "i", "t", "a", "l", " ", "o", "f", " ", "F", "r", "a", "n", "c", "e", ".">>,
               <<"I", "t", " ", "h", "a", "s", " ", "a", " ", "p", "o", "p", "u", "l", "a", "t", "i", "o", "n", " ", "o", "f", " ", "o", "v", "e", "r", " ", "t", "w", "o", " ", "m", "i", "l", "l", "i", "o", "n", ".">>,
               <<"T", "h", "e", " ", "C", "A", "T", " ", "s", "a", "t", ".">>,
               <<"C", "o", "n", "c", "a", "t", "e", "n", "a", "t", "e", " ", "h", "a", "t", "s", "!">>,
               <<"P", "i", " ", "i", "s", " ", "3", ".", "1", "4", " ", "o", "k">>,
               <<>> }

RECURSIVE Join(_)
Join(fs) ==
    IF Len(fs) = 0 THEN << >>
    ELSE IF Len(fs) = 1 THEN fs[1]
    ELSE fs[1] \o << " " >> \o Join(Tail(fs))

Contexts == { Join(fs) : fs \in UNION { [1..n -> Fragments] : n \in 0..MaxSentences } }

Questions == { <<"W", "h", "a", "t", " ", "i", "s", " ", "t", "h", "e", " ", "c", "a", "p", "i", "t", "a", "l", " ", "o", "f", " ", "F", "r", "a", "n", "c", "e", "?">>,
               <<"I", "s", " ", "t", "h", "e", " ", "c", "a", "t", " ", "a", " ", "h", "a", "t", "?">>,
               <<"T", "r", "u", "e", " ", "o", "r", " ", "f", "a", "l", "s", "e", ":", " ", "P", "a", "r", "i", "s", " ", "i", "s", " ", "b", "i", "g", ".">>,
               <<"T", "R", "U", "E", " ", "O", "R", " ", "F", "A", "L", "S", "E", ":", " ", "t", "h", "e", " ", "_", "_", "_", "_", "_", "_", "_", "_", " ", "s", "a", "t", ".">>,
               <<"T", "h", "e", " ", "_", "_", "_", "_", "_", "_", "_", "_", " ", "s", "a", "t", ".">>,
               <<"I", "n", "d", "i", "c", "a", "t", "e", " ", "w", "h", "e", "t", "h", "e", "r", " ", "c", "a", "t", "s", " ", "n", "a", "p", ".">>,
               <<"I", "s", " ", "t", "h", "e", " ", "f", "o", "l", "l", "o", "w", "i", "n", "g", " ", "t", "r", "u", "e", "?">>,
               <<"W", "h", "y", "?">>,
               <<>> }

EmptyDict == [t \in {} |-> << >>]

AppIdle ==
    /\ text_input = << >>
    /\ checkboxes = [t \in {} |-> FALSE]
    /\ classified_questions = EmptyDict
    /\ calls = << >>
    /\ error_shown = FALSE
    /\ all_questions = << >>
    /\ download_offered = FALSE

ExtractAnswersIdle ==
    /\ ea_context = None
    /\ questions_by_type = EmptyDict
    /\ questions_with_answers = None

AnswerExtractionIdle ==
    /\ context = << >>
    /\ question = << >>
    /\ answer = None
    /\ returned_at = 0

InitSAE ==
    /\ pc = "call"
    /\ context \in Contexts
    /\ question \in Questions
    /\ answer = None
    /\ returned_at = 0
    /\ ExtractAnswersIdle
    /\ AppIdle

\* one call of simple_answer_extraction(context, question)
SimpleAnswerExtraction ==
    /\ pc = "call"
    /\ \E r \in simple_answer_extraction(context, question) :
          /\ answer' = r.answer
          /\ returned_at' = r.line
    /\ pc' = "done"
    /\ UNCHANGED <<context, question, eaVars, appVars>>

NextSAE == SimpleAnswerExtraction

SpecSAE == InitSAE /\ [][NextSAE]_vars

-----------------------------------------------------------------------------
(* extract_answers                                                         *)

PassThroughTypes == {"fill-in-the-blank", "true-false"}

MinKeptAnswerLength == 5

\* text = context["text"] if isinstance(context, dict) else context
ContextText(ctx) == IF ctx.type = "dict" THEN ctx.dict["text"] ELSE ctx.str

\* variant: an answer of exactly 5 characters counts as reasonable
HasReasonableAnswer_Inclusive(q) ==
    "answer" \in DOMAIN q /\ Len(q["answer"]) >= MinKeptAnswerLength

\* "answer" in q and len(q["answer"]) > 5
HasReasonableAnswer(q) == "answer" \in DOMAIN q /\ Len(q["answer"]) > MinKeptAnswerLength

\* variant: no special case for fill-in-the-blank and true-false
ExtractEntry_NoPassThrough(text, q_type, q) ==
    IF HasReasonableAnswer(q) THEN { q }
    ELSE { [question |-> q["question"], answer |-> r.answer] :
             r \in simple_answer_extraction(text, q["question"]) }

\* body of the inner loop: the entries that may be appended for entry q
ExtractEntry(text, q_type, q) ==
    IF q_type \in PassThroughTypes THEN { q }
    ELSE IF HasReasonableAnswer(q) THEN { q }
    ELSE { [question |-> q["question"], answer |-> r.answer] :
             r \in simple_answer_extraction(text, q["question"]) }

\* variant: each entry is inserted at the front of the list
RECURSIVE ExtractList_Prepend(_, _, _)
ExtractList_Prepend(text, q_type, questions) ==
    IF Len(questions) = 0 THEN { << >> }
    ELSE { rest \o << e >> : e \in ExtractEntry(text, q_type, Head(questions)),
                             rest \in ExtractList_Prepend(text, q_type, Tail(questions)) }

\* the inner loop over the entries of one type: the lists it may build
RECURSIVE ExtractList(_, _, _)
ExtractList(text, q_type, questions) ==
    IF Len(questions) = 0 THEN { << >> }
    ELSE { << e >> \o rest : e \in ExtractEntry(text, q_type, Head(questions)),
                             rest \in ExtractList(text, q_type, Tail(questions)) }

\* the outer loop over the items of questions_by_type
RECURSIVE ExtractTypes(_, _, _)
ExtractTypes(text, by_type, types) ==
    IF types = {} THEN { EmptyDict }
    ELSE LET q_type == CHOOSE t \in types : TRUE
         IN  { (q_type :> l) @@ d : l \in ExtractList(text, q_type, by_type[q_type]),
                                    d \in ExtractTypes(text, by_type, types \ {q_type}) }

\* the dicts extract_answers(context, questions_by_type) may return
extract_answers(ctx, by_type) == ExtractTypes(ContextText(ctx), by_type, DOMAIN by_type)

(* Inputs of extract_answers *)

MaxEntries == 2

QuestionTypes == {"fill-in-the-blank", "true-false", "short-answer", "long-answer"}

Entries == { [question |-> <<"I", "s", " ", "t", "h", "e", " ", "c", "a", "t", " ", "a", " ", "h", "a", "t", "?">>, hint |-> <<"c", "a", "t">>],
             [question |-> <<"T", "r", "u", "e", " ", "o", "r", " ", "f", "a", "l", "s", "e", ":", " ", "P", "a", "r", "i", "s", " ", "i", "s", " ", "b", "i", "g", ".">>, answer |-> <<"P", "a", "r", "i", "s">>],
             [question |-> <<"W", "h", "a", "t", " ", "i", "s", " ", "t", "h", "e", " ", "c", "a", "p", "i", "t", "a", "l", " ", "o", "f", " ", "F", "r", "a", "n", "c", "e", "?">>, answer |-> <<"F", "r", "a", "n", "c", "e">>,
              hint |-> <<"m", "a", "p">>] }

EntryLists == UNION { [1..n -> Entries] : n \in 0..MaxEntries }

\* question sets over any subset of the four type labels; the two lists are
\* shared between the labels to keep the set small
QuestionSets ==
    { [t \in D |-> IF t \in {"fill-in-the-blank", "long-answer"} THEN l1 ELSE l2] :
        D \in SUBSET QuestionTypes, l1 \in EntryLists, l2 \in EntryLists }

ExtractContexts ==
    { [type |-> "dict", dict |-> [text |-> <<"P", "a", "r", "i", "s", " ", "i", "s", " ", "t", "h", "e", " ", "c", "a", "p", "i", "t", "a", "l", " ", "o", "f", " ", "F", "r", "a", "n", "c", "e", ".", " ", "T", "h", "e", " ", "C", "A", "T", " ", "s", "a", "t", ".">>]],
      [type |-> "str", str |-> <<"A", ".", " ", "C", "o", "n", "c", "a", "t", "e", "n", "a", "t", "e", " ", "h", "a", "t", "s", "!">>] }

InitEA ==
    /\ pc = "call"
    /\ ea_context \in ExtractContexts
    /\ questions_by_type \in QuestionSets
    /\ questions_with_answers = None
    /\ AnswerExtractionIdle
    /\ AppIdle

\* one call of extract_answers(ea_context, questions_by_type)
ExtractAnswers ==
    /\ pc = "call"
    /\ questions_with_answers' \in extract_answers(ea_context, questions_by_type)
    /\ pc' = "done"
    /\ UNCHANGED <<ea_context, questions_by_type, saeVars, appVars>>

NextEA == ExtractAnswers

SpecEA == InitEA /\ [][NextEA]_vars

-----------------------------------------------------------------------------
(* The "Generate Questions" button handler of app.py                       *)

MinTextLength == 50

RECURSIVE LStrip(_)
LStrip(s) == IF Len(s) > 0 /\ Head(s) \in Whitespace THEN LStrip(Tail(s)) ELSE s

RECURSIVE RStrip(_)
RStrip(s) ==
    IF Len(s) > 0 /\ s[Len(s)] \in Whitespace THEN RStrip(SubSeq(s, 1, Len(s) - 1)) ELSE s

\* str.strip()
Strip(s) == RStrip(LStrip(s))

\* variant: the length test on the text as typed
TextRejected_NoStrip(text) == Len(text) = 0 \/ Len(text) < MinTextLength

\* not text_input or len(text_input.strip()) < 50
TextRejected(text) == Len(text) = 0 \/ Len(Strip(text)) < MinTextLength

\* the four sections of the page in the order the handler visits them
Sections ==
    << [box |-> "fill_blanks", label |-> "fill-in-the-blank", title |-> "Fill in the Blanks"],
       [box |-> "true_false", label |-> "true-false", title |-> "True/False"],
       [box |-> "short_answer", label |-> "short-answer", title |-> "Short Answer"],
       [box |-> "long_answer", label |-> "long-answer", title |-> "Long Answer"] >>

\* tab_titles, built from the checkboxes and the classified questions
tab_titles(boxes, classified) ==
    LET Pick(k) == IF boxes[Sections[k].box] /\ Sections[k].label \in DOMAIN classified
                   THEN << Sections[k].title >> ELSE << >>
    IN  Pick(1) \o Pick(2) \o Pick(3) \o Pick(4)

\* the rows one section appends to all_questions
SectionRows(title, qa_pairs) ==
    [i \in 1..Len(qa_pairs) |->
        [Type |-> title, Question |-> qa_pairs[i]["question"], Answer |-> qa_pairs[i]["answer"]]]

\* the four display blocks from section k on, tab_index tabs being used so far
RECURSIVE Render(_, _, _, _, _)
Render(k, tab_index, tabs, boxes, classified) ==
    IF k > Len(Sections) THEN << >>
    ELSE IF /\ boxes[Sections[k].box]
            /\ Sections[k].label \in DOMAIN classified
            /\ tab_index < tabs
         THEN SectionRows(Sections[k].title, classified[Sections[k].label])
                  \o Render(k + 1, tab_index + 1, tabs, boxes, classified)
         ELSE Render(k + 1, tab_index, tabs, boxes, classified)

Pipeline == << "preprocess_text", "generate_questions", "extract_answers", "classify_questions" >>

\* the calls the handler makes for a text, given the rows it then collects
HandlerCalls(text, rows) ==
    IF TextRejected(text) THEN << >>
    ELSE Pipeline \o (IF Len(rows) > 0 THEN << "export_to_csv" >> ELSE << >>)

(* Inputs of the handler *)

TextSlack == 2

Rep(c, n) == [i \in 1..n |-> c]

CoreLengths == (MinTextLength - TextSlack)..(MinTextLength + TextSlack)

Cores == { Rep("x", n) : n \in {0} \cup CoreLengths }
            \cup { << "x", " " >> \o Rep("x", n - 2) : n \in CoreLengths }

Pads == { << >>, << " " >>, << "\n", "\t" >> }

Texts == { l \o c \o t : l \in Pads, c \in Cores, t \in Pads }

Checkboxes == [{"fill_blanks", "true_false", "short_answer", "long_answer"} -> BOOLEAN]

QA1 == [question |-> <<"Q", "1">>, answer |-> <<"A", "1">>]

QA2 == [question |-> <<"Q", "2">>, answer |-> <<"A", "2">>, difficulty |-> <<"e", "a", "s", "y">>]

\* values classify_questions may return
ClassifiedSets ==
    { EmptyDict,
      [t \in {"fill-in-the-blank"} |-> << QA1 >>],
      [t \in {"short-answer", "true-false"} |->
          IF t = "short-answer" THEN << QA1, QA2 >> ELSE << >>],
      [t \in QuestionTypes |-> << QA2 >>] }

InitApp ==
    /\ pc = "call"
    /\ text_input \in Texts
    /\ checkboxes \in Checkboxes
    /\ classified_questions \in ClassifiedSets
    /\ calls = << >>
    /\ error_shown = FALSE
    /\ all_questions = << >>
    /\ download_offered = FALSE
    /\ AnswerExtractionIdle
    /\ ExtractAnswersIdle

\* one click on "Generate Questions": the whole run of the handler
GenerateQuestions ==
    /\ pc = "call"
    /\ LET rows == IF TextRejected(text_input) THEN << >>
                   ELSE Render(1, 0, Len(tab_titles(checkboxes, classified_questions)),
                               checkboxes, classified_questions)
       IN  /\ error_shown' = TextRejected(text_input)
           /\ calls' = HandlerCalls(text_input, rows)
           /\ all_questions' = rows
           /\ download_offered' = (Len(rows) > 0)
    /\ pc' = "done"
    /\ UNCHANGED <<text_input, checkboxes, classified_questions, saeVars, eaVars>>

NextApp == GenerateQuestions

SpecApp == InitApp /\ [][NextApp]_vars

-----------------------------------------------------------------------------
(* Properties                                                              *)

\* the text contains eight consecutive underscores
BlankAt(q) == \E i \in 1..(Len(q) - 7) : \A k \in 0..7 : q[i + k] = "_"

\* the lower-cased text starts with one of the three true/false prefixes
TrueFalseQuestion(q) ==
    \E p \in TrueFalsePrefixes :
        Len(q) >= Len(p) /\ \A i \in 1..Len(p) : LowerChar(q[i]) = p[i]

\* a question with neither the blank marker nor a true/false prefix
PlainQuestion(q) == ~BlankAt(q) /\ ~TrueFalseQuestion(q)

Returned == pc = "done"

IsPassThrough(t) == t = "fill-in-the-blank" \/ t = "true-false"

LongAnswer(e) == "answer" \in DOMAIN e /\ Len(e["answer"]) > 5

TextOf(ctx) == IF ctx.type = "dict" THEN ctx.dict["text"] ELSE ctx.str

\* C1: extract_answers returns every fill-in-the-blank/true-false entry, and
\* every entry of another type whose answer is longer than 5 characters, at the
\* position it had in the input and with exactly the fields and values it had.
C1_Preserved ==
    Returned =>
        \A t \in DOMAIN questions_by_type :
            \A i \in 1..Len(questions_by_type[t]) :
                LET e == questions_by_type[t][i]
                IN  (IsPassThrough(t) \/ LongAnswer(e)) =>
                        /\ t \in DOMAIN questions_with_answers
                        /\ i <= Len(questions_with_answers[t])
                        /\ DOMAIN questions_with_answers[t][i] = DOMAIN e
                        /\ questions_with_answers[t][i] = e

\* a fill-in-the-blank entry without an answer and a short-answer entry with a
\* long answer were both returned, next to an entry whose answer was derived
C1_Witness ==
    /\ Returned
    /\ "fill-in-the-blank" \in DOMAIN questions_by_type
    /\ "short-answer" \in DOMAIN questions_by_type
    /\ \E i \in 1..Len(questions_by_type["fill-in-the-blank"]) :
          "answer" \notin DOMAIN questions_by_type["fill-in-the-blank"][i]
    /\ \E i \in 1..Len(questions_by_type["short-answer"]) :
          LongAnswer(questions_by_type["short-answer"][i])
    /\ \E i \in 1..Len(questions_by_type["short-answer"]) :
          questions_with_answers["short-answer"][i] # questions_by_type["short-answer"][i]

\* C2 (as stated): for a true/false-prefixed question the answer is "True" or
\* "False", whatever else the question contains.
C2_AsStated ==
    (Returned /\ TrueFalseQuestion(question)) => answer \in {TrueLiteral, FalseLiteral}

\* C2 (amended): for a true/false-prefixed question that does not contain the
\* blank marker the answer is "True" or "False".
C2_TrueOrFalse ==
    (Returned /\ TrueFalseQuestion(question) /\ ~BlankAt(question)) =>
        answer \in {TrueLiteral, FalseLiteral}

\* a prefixed question with an upper-case letter was answered "False" for a
\* non-empty context
C2_Witness ==
    /\ Returned
    /\ TrueFalseQuestion(question)
    /\ ~BlankAt(question)
    /\ question[1] \in Range(UpperCase)
    /\ Len(context) > 0
    /\ answer = FalseLiteral

\* C3: for a question containing the blank marker anywhere, with any prefix,
\* the answer is "Cannot determine from the context.".
C3_BlankIndeterminate ==
    (Returned /\ BlankAt(question)) => answer = CannotDetermine

\* a question that has a true/false prefix and the marker in its middle
C3_Witness ==
    /\ Returned
    /\ BlankAt(question)
    /\ TrueFalseQuestion(question)
    /\ question[1] # "_"
    /\ answer = CannotDetermine

\* C4: for the empty context and a plain question the answer is the
\* "not explicitly stated" fallback.
C4_EmptyContextFallback ==
    (Returned /\ context = << >> /\ PlainQuestion(question)) => answer = NotStated

\* the indices (0-based) of the sentences with the highest score
BestIndices(words, sentences) ==
    { i \in 0..(Len(sentences) - 1) :
        \A j \in 0..(Len(sentences) - 1) :
            Score(words, sentences[j + 1], j) <= Score(words, sentences[i + 1], i) }

Min(S) == CHOOSE x \in S : \A y \in S : x <= y

\* C5: when several sentences share the highest score for a plain question, the
\* one with the earliest index is returned.
C5_EarliestOnTie ==
    (Returned /\ PlainQuestion(question)) =>
        LET sentences == SplitSentences(context)
            best == BestIndices(content_words(question), sentences)
        IN  Cardinality(best) >= 2 => answer = sentences[Min(best) + 1]

\* score of the claim: content words that are words of the sentence, compared
\* case-insensitively, plus 1 for the first and the second sentence
WordScore(words, sentence, i) ==
    Cardinality(words \cap FindAllWords(Lower(sentence))) + (IF i < 2 THEN 1 ELSE 0)

\* C6: for a plain question the returned sentence has the maximum score over
\* the sentences of the context, the score counting the question's content
\* words that are words of the sentence, plus 1 for the first two sentences.
C6_MaxWordScore ==
    (Returned /\ PlainQuestion(question)) =>
        LET sentences == SplitSentences(context)
            words == content_words(question)
        IN  \E i \in 0..(Len(sentences) - 1) :
                /\ sentences[i + 1] = answer
                /\ \A j \in 0..(Len(sentences) - 1) :
                      WordScore(words, sentences[j + 1], j)
                          <= WordScore(words, sentences[i + 1], i)

\* number of characters between the first and the last non-whitespace
\* character of s, both included
TrimmedLength(s) ==
    LET solid == { i \in 1..Len(s) : s[i] \notin Whitespace }
    IN  IF solid = {} THEN 0
        ELSE (CHOOSE i \in solid : \A j \in solid : j <= i)
                 - (CHOOSE i \in solid : \A j \in solid : i <= j) + 1

Occurrences(seq, x) == Cardinality({ i \in 1..Len(seq) : seq[i] = x })

\* C7: the click is rejected with an error exactly when the text is empty or
\* shorter than 50 characters after trimming; a rejected click calls no stage
\* and produces no rows and no download; an accepted click calls preprocess,
\* generate, extract answers and classify once each, in that order.
C7_Validation ==
    Returned =>
        /\ error_shown <=> (text_input = << >> \/ TrimmedLength(text_input) < 50)
        /\ error_shown =>
              /\ calls = << >>
              /\ all_questions = << >>
              /\ ~download_offered
        /\ ~error_shown =>
              /\ Len(calls) >= 4
              /\ SubSeq(calls, 1, 4) = << "preprocess_text", "generate_questions",
                                          "extract_answers", "classify_questions" >>
              /\ \A i \in 1..4 : Occurrences(calls, calls[i]) = 1

\* a text of at least 50 characters was rejected because of its padding, some
\* question type being selected and classified
C7_Witness ==
    /\ Returned
    /\ error_shown
    /\ Len(text_input) >= 50
    /\ \E k \in 1..Len(Sections) :
          /\ checkboxes[Sections[k].box]
          /\ Sections[k].label \in DOMAIN classified_questions
          /\ Len(classified_questions[Sections[k].label]) > 0

ShortOrNoAnswer(e) == "answer" \notin DOMAIN e \/ Len(e["answer"]) <= 5

\* C9: for an entry of a type other than fill-in-the-blank and true-false whose
\* answer is absent or at most 5 characters long, the result holds at its
\* position an entry with the fields "question" and "answer" only, the answer
\* being an outcome of simple_answer_extraction on the context's text.
C9_Derived ==
    Returned =>
        \A t \in DOMAIN questions_by_type :
            \A i \in 1..Len(questions_by_type[t]) :
                LET e == questions_by_type[t][i]
                IN  (~IsPassThrough(t) /\ ShortOrNoAnswer(e)) =>
                        /\ DOMAIN questions_with_answers[t][i] = {"question", "answer"}
                        /\ questions_with_answers[t][i]["question"] = e["question"]
                        /\ \E r \in simple_answer_extraction(TextOf(ea_context), e["question"]) :
                              questions_with_answers[t][i]["answer"] = r.answer

\* a long-answer entry with a 5-character answer and one with an extra field
\* and no answer were both given a derived answer, from a dict context
C9_Witness ==
    /\ Returned
    /\ ea_context.type = "dict"
    /\ "long-answer" \in DOMAIN questions_by_type
    /\ \E i \in 1..Len(questions_by_type["long-answer"]) :
          LET e == questions_by_type["long-answer"][i]
          IN  /\ "answer" \in DOMAIN e
              /\ Len(e["answer"]) = 5
              /\ questions_with_answers["long-answer"][i]["answer"] # e["answer"]
    /\ \E i \in 1..Len(questions_by_type["long-answer"]) :
          LET e == questions_by_type["long-answer"][i]
          IN  /\ "answer" \notin DOMAIN e
              /\ "hint" \in DOMAIN e
              /\ "hint" \notin DOMAIN questions_with_answers["long-answer"][i]

\* C10: the result has the type labels of the input and, under each label, as
\* many entries as the input, each with the question text of the input entry
\* at that position.
C10_ShapePreserved ==
    Returned =>
        /\ DOMAIN questions_with_answers = DOMAIN questions_by_type
        /\ \A t \in DOMAIN questions_by_type :
              /\ Len(questions_with_answers[t]) = Len(questions_by_type[t])
              /\ \A i \in 1..Len(questions_by_type[t]) :
                    questions_with_answers[t][i]["question"] = questions_by_type[t][i]["question"]

\* all four labels are present, and a list of two entries with different
\* questions had its first entry passed through and its second one rewritten
C10_Witness ==
    /\ Returned
    /\ DOMAIN questions_by_type = QuestionTypes
    /\ \E t \in DOMAIN questions_by_type :
          /\ Len(questions_by_type[t]) = 2
          /\ questions_by_type[t][1]["question"] # questions_by_type[t][2]["question"]
          /\ questions_with_answers[t][1] = questions_by_type[t][1]
          /\ questions_with_answers[t][2] # questions_by_type[t][2]
====
